---------------------------- MODULE Spec2Model ----------------------------
(***************************************************************************)
(* Snake-lite: the tick-driven state machine of class SnakeGame            *)
(* (snake.ts).  One JavaScript execution context: a handler (a timer       *)
(* callback or a keydown listener) runs to completion before the next one  *)
(* starts.  A timer callback is modelled in steps, with the stack of       *)
(* active gameLoop invocations explicit, because the game-over path calls  *)
(* gameLoop() again from inside update().                                  *)
(*                                                                         *)
(* Time is abstracted: a pending timer may fire whenever no handler runs.  *)
(* The delay handed to setTimeout is recorded in the log of calls.         *)
(*                                                                         *)
(* Left out: isPaused (written by resetGame(), never read), the canvas     *)
(* drawing of draw() and the DOM text of the two displays (their calls are *)
(* logged).                                                                *)
(***************************************************************************)
EXTENDS Integers, Sequences, FiniteSets

(***************************************************************************)
(* Bounds of the model.                                                    *)
(*   GridWidth, GridHeight  canvas.width / gridSize, canvas.height /       *)
(*                          gridSize (the canvas is not part of the class) *)
(*   MaxScore               apples eaten per session (guard of Update)     *)
(*   MaxTimers              pending timers (guard of FireHandle)           *)
(*   MaxStoredHigh          largest high score found in the store at start *)
(*   MaxApples              apples eaten per session in SessionSpec        *)
(***************************************************************************)
GridWidth == 5
GridHeight == 2
MaxScore == 4
MaxTimers == 2
MaxStoredHigh == 1
MaxApples == 32

(* CONFIG *)
initialSpeed == 200
minSpeed == 50
speedDecrement == 5

Direction == {"up", "down", "left", "right"}

Point(px, py) == [x |-> px, y |-> py]

Cells == {Point(px, py) : px \in 0..(GridWidth - 1), py \in 0..(GridHeight - 1)}

Range(s) == {s[i] : i \in 1..Len(s)}

Front(s) == SubSeq(s, 1, Len(s) - 1)

(***************************************************************************)
(* The high-score store holds a decimal string (a sequence of digits);     *)
(* the empty sequence stands for an absent (or empty) item.                *)
(***************************************************************************)
RECURSIVE toString(_)
toString(n) == IF n < 10 THEN <<n>> ELSE Append(toString(n \div 10), n % 10)

RECURSIVE parseInt(_)
parseInt(s) == IF Len(s) = 0 THEN 0
               ELSE 10 * parseInt(Front(s)) + s[Len(s)]

LoadHighScore(item) == parseInt(IF item = <<>> THEN <<0>> ELSE item)

(* faulty variant of MoveHead: up and down exchanged *)
MoveHeadFlipped(head, d) ==
    CASE d = "up"    -> Point(head.x, head.y + 1)
      [] d = "down"  -> Point(head.x, head.y - 1)
      [] d = "left"  -> Point(head.x - 1, head.y)
      [] d = "right" -> Point(head.x + 1, head.y)

(* update(), lines 161-168: the prospective head *)
MoveHead(head, d) ==
    CASE d = "up"    -> Point(head.x, head.y - 1)
      [] d = "down"  -> Point(head.x, head.y + 1)
      [] d = "left"  -> Point(head.x - 1, head.y)
      [] d = "right" -> Point(head.x + 1, head.y)

(* faulty variant of HitsWall: no wall at the top *)
HitsWallNoTop(head) ==
    \/ head.x < 0
    \/ head.x >= GridWidth
    \/ head.y >= GridHeight

(* faulty variant of HitsWall: the far walls one cell too far *)
HitsWallOffByOne(head) ==
    \/ head.x < 0
    \/ head.x > GridWidth
    \/ head.y < 0
    \/ head.y > GridHeight

(* update(), lines 172-175 *)
HitsWall(head) ==
    \/ head.x < 0
    \/ head.x >= GridWidth
    \/ head.y < 0
    \/ head.y >= GridHeight

(* faulty variant of checkSelfCollision: the cell of the tail is free to enter *)
checkSelfCollisionLax(s, head) ==
    \E i \in 1..(Len(s) - 1) : s[i].x = head.x /\ s[i].y = head.y

(* faulty variant of checkSelfCollision: only the first three segments *)
checkSelfCollisionShort(s, head) ==
    \E i \in 1..Len(s) : i <= 3 /\ s[i].x = head.x /\ s[i].y = head.y

(* checkSelfCollision(), line 205: the whole snake, before the move *)
checkSelfCollision(s, head) ==
    \E i \in 1..Len(s) : s[i].x = head.x /\ s[i].y = head.y

(* faulty variant of placeApple: a single draw, never rejected *)
placeAppleAnywhere(s) == Cells

(***************************************************************************)
(* placeApple(): rejection sampling; a call that returns has drawn a cell  *)
(* that is not on the snake.  The set of the cells it can return.          *)
(***************************************************************************)
placeApple(s) ==
    {c \in Cells : ~(\E i \in 1..Len(s) : s[i].x = c.x /\ s[i].y = c.y)}

(* faulty variant of increaseDifficulty: stops one step above the floor *)
increaseDifficultyStopsEarly(sp) ==
    IF sp > minSpeed + speedDecrement THEN sp - speedDecrement ELSE sp

(* faulty variant of increaseDifficulty: no floor *)
increaseDifficultyNoFloor(sp) == sp - speedDecrement

(* increaseDifficulty(), lines 214-216 *)
increaseDifficulty(sp) ==
    IF sp > minSpeed THEN sp - speedDecrement ELSE sp

(* KeyboardEvent.key of the four keys initInput() handles *)
KeyName(k) ==
    CASE k = "up"    -> "ArrowUp"
      [] k = "down"  -> "ArrowDown"
      [] k = "left"  -> "ArrowLeft"
      [] k = "right" -> "ArrowRight"

(* the direction a guard of initInput() pairs with each key *)
Opposite(d) ==
    CASE d = "up"    -> "down"
      [] d = "down"  -> "up"
      [] d = "left"  -> "right"
      [] d = "right" -> "left"

(* faulty variant of KeyAccepted: compared for equality with the wrong side *)
KeyAcceptedNotForward(k, dir) == k # dir

(* faulty variant of KeyAccepted: accepts every request *)
KeyAcceptedAlways(k, dir) == TRUE

(* faulty variant of KeyAccepted: rejects a request for the committed direction too *)
KeyAcceptedTurnsOnly(k, dir) == k # dir /\ k # Opposite(dir)

(* initInput(): the guard of each case of the switch *)
KeyAccepted(k, dir) ==
    CASE k = "up"    -> dir # "down"
      [] k = "down"  -> dir # "up"
      [] k = "left"  -> dir # "right"
      [] k = "right" -> dir # "left"

VARIABLES
    snake,            \* Point[]: head first
    apple,            \* Point
    direction,        \* the committed direction
    nextDirection,    \* the buffered (pending) direction
    score,
    highScore,
    speed,
    gameLoopTimeout,  \* "null", "live" (a pending timer) or "stale" (fired or cleared)
    stored,           \* localStorage item snakeHighScore
    pending,          \* number of pending timers of the window
    stack,            \* active invocations, innermost first
    log,              \* the handler that ran last: its event, then its calls in order
    lastLegal         \* history: last accepted request since the last commit

vars == <<snake, apple, direction, nextDirection, score, highScore, speed,
          gameLoopTimeout, stored, pending, stack, log, lastLegal>>

Call(op, a, b) == [op |-> op, a |-> a, b |-> b]

Idle == stack = <<>>

(***************************************************************************)
(* The constructor up to the call of resetGame(), lines 74-83.  The store   *)
(* is empty or holds what an earlier run wrote: a score above the high     *)
(* score of that time, hence at least 1.                                   *)
(***************************************************************************)
Init ==
    /\ stored \in {<<>>} \cup {toString(n) : n \in 1..MaxStoredHigh}
    /\ snake = <<>>
    /\ apple = Point(0, 0)
    /\ direction = "right"
    /\ nextDirection = "right"
    /\ score = 0
    /\ highScore = LoadHighScore(stored)
    /\ speed = initialSpeed
    /\ gameLoopTimeout = "null"
    /\ pending = 0
    /\ stack = <<"resetGame">>
    /\ log = <<Call("updateHighScoreDisplay", highScore, 0)>>
    /\ lastLegal = "none"

(***************************************************************************)
(* resetGame(), lines 93-105, up to the call of gameLoop(), which is left  *)
(* on the stack at its first statement.  Called by the constructor and by  *)
(* handleGameOver() once the alert has returned.                           *)
(***************************************************************************)
ResetGame ==
    /\ stack # <<>>
    /\ Head(stack) = "resetGame"
    /\ snake' = <<Point(3, 1)>>
    /\ direction' = "right"
    /\ nextDirection' = "right"
    /\ score' = 0
    /\ speed' = initialSpeed
    /\ apple' \in placeApple(snake')
    /\ IF gameLoopTimeout # "null"
       THEN /\ pending' = IF gameLoopTimeout = "live" THEN pending - 1 ELSE pending
            /\ gameLoopTimeout' = "stale"
            /\ log' = log \o <<Call("resetGame", 0, 0), Call("updateScoreDisplay", 0, 0),
                               Call("placeApple", 0, 0), Call("clearTimeout", 0, 0),
                               Call("gameLoop", 0, 0)>>
       ELSE /\ UNCHANGED <<pending, gameLoopTimeout>>
            /\ log' = log \o <<Call("resetGame", 0, 0), Call("updateScoreDisplay", 0, 0),
                               Call("placeApple", 0, 0), Call("gameLoop", 0, 0)>>
    /\ stack' = <<"update">> \o Tail(stack)
    /\ UNCHANGED <<highScore, stored, lastLegal>>

(***************************************************************************)
(* A pending timer fires while no handler runs: () => this.gameLoop().     *)
(* FireHandle fires the timer gameLoopTimeout refers to, FireOther any     *)
(* other pending timer.  The number of pending timers grows only when the  *)
(* timer gameLoopTimeout refers to fires and its tick ends in game over;   *)
(* MaxTimers bounds it.                                                    *)
(***************************************************************************)
FireHandle ==
    /\ Idle
    /\ gameLoopTimeout = "live"
    /\ pending >= 1
    /\ pending < MaxTimers
    /\ pending' = pending - 1
    /\ gameLoopTimeout' = "stale"
    /\ stack' = <<"update">>
    /\ log' = <<Call("gameLoop", 0, 0)>>
    /\ UNCHANGED <<snake, apple, direction, nextDirection, score, highScore,
                   speed, stored, lastLegal>>

FireOther ==
    /\ Idle
    /\ pending >= (IF gameLoopTimeout = "live" THEN 2 ELSE 1)
    /\ pending' = pending - 1
    /\ stack' = <<"update">>
    /\ log' = <<Call("gameLoop", 0, 0)>>
    /\ UNCHANGED <<snake, apple, direction, nextDirection, score, highScore,
                   speed, gameLoopTimeout, stored, lastLegal>>

(* faulty variant of MoveBody: the tail is never removed *)
MoveBodyNoPop(s, head) == <<head>> \o s

(* update(), line 182 followed by line 191: unshift, then pop *)
MoveBody(s, head) == Front(<<head>> \o s)

(* faulty variant of GrowBody: the tail is removed on the apple branch too *)
GrowBodyPop(s, head) == Front(<<head>> \o s)

(* update(), line 182 on the apple branch: unshift only *)
GrowBody(s, head) == <<head>> \o s

(* update(), line 185 *)
OnApple(head, a) == head.x = a.x /\ head.y = a.y

(* faulty variant of NewHighScore: an equal score counts as a new high score *)
NewHighScoreOrEqual(sc, hs) == sc >= hs

(* faulty variant of NewHighScore: the high score is never replaced *)
NewHighScoreNever(sc, hs) == FALSE

(* handleGameOver(), line 226 *)
NewHighScore(sc, hs) == sc > hs

(***************************************************************************)
(* update(), lines 159-193, called by gameLoop() at line 292.  On a        *)
(* collision it runs handleGameOver() up to the alert, lines 226-232, and  *)
(* leaves the alert on the stack above the gameLoop() that called it.      *)
(***************************************************************************)
Update ==
    /\ stack # <<>>
    /\ Head(stack) = "update"
    /\ direction' = nextDirection
    /\ lastLegal' = "none"
    /\ LET head == MoveHead(snake[1], direction') IN
       IF HitsWall(head) \/ checkSelfCollision(snake, head)
       THEN /\ IF NewHighScore(score, highScore)
               THEN /\ highScore' = score
                    /\ stored' = toString(highScore')
                    /\ log' = log \o <<Call("update", 0, 0),
                                       Call("handleGameOver", 0, 0),
                                       Call("setItem", highScore', 0),
                                       Call("updateHighScoreDisplay", highScore', 0),
                                       Call("alert", score, highScore')>>
               ELSE /\ UNCHANGED <<highScore, stored>>
                    /\ log' = log \o <<Call("update", 0, 0),
                                       Call("handleGameOver", 0, 0),
                                       Call("alert", score, highScore)>>
            /\ stack' = <<"alert", "draw">> \o Tail(stack)
            /\ UNCHANGED <<snake, apple, score, speed>>
       ELSE IF OnApple(head, apple)
       THEN /\ score < MaxScore
            /\ snake' = GrowBody(snake, head)
            /\ score' = score + 1
            /\ apple' \in placeApple(snake')
            /\ speed' = increaseDifficulty(speed)
            /\ log' = log \o <<Call("update", 0, 0),
                               Call("updateScoreDisplay", score', 0),
                               Call("placeApple", 0, 0),
                               Call("increaseDifficulty", speed, speed')>>
            /\ stack' = <<"draw">> \o Tail(stack)
            /\ UNCHANGED <<highScore, stored>>
       ELSE /\ snake' = MoveBody(snake, head)
            /\ log' = Append(log, Call("update", 0, 0))
            /\ stack' = <<"draw">> \o Tail(stack)
            /\ UNCHANGED <<apple, score, speed, highScore, stored>>
    /\ UNCHANGED <<nextDirection, gameLoopTimeout, pending>>

(***************************************************************************)
(* The alert of handleGameOver(), line 232, returns (the player dismisses  *)
(* it); line 233 calls resetGame().                                        *)
(***************************************************************************)
AlertAck ==
    /\ stack # <<>>
    /\ Head(stack) = "alert"
    /\ stack' = <<"resetGame">> \o Tail(stack)
    /\ UNCHANGED <<snake, apple, direction, nextDirection, score, highScore,
                   speed, gameLoopTimeout, stored, pending, log, lastLegal>>

(* gameLoop(), line 293 *)
Draw ==
    /\ stack # <<>>
    /\ Head(stack) = "draw"
    /\ log' = Append(log, Call("draw", 0, 0))
    /\ stack' = <<"setTimeout">> \o Tail(stack)
    /\ UNCHANGED <<snake, apple, direction, nextDirection, score, highScore,
                   speed, gameLoopTimeout, stored, pending, lastLegal>>

(* faulty variant of Schedule: the invocation returns without re-arming *)
ScheduleNoRearm ==
    /\ stack # <<>>
    /\ Head(stack) = "setTimeout"
    /\ log' = log
    /\ stack' = Tail(stack)
    /\ UNCHANGED <<snake, apple, direction, nextDirection, score, highScore,
                   speed, gameLoopTimeout, stored, pending, lastLegal>>

(* faulty variant of Schedule: a fixed-rate timer *)
ScheduleFixedRate ==
    /\ stack # <<>>
    /\ Head(stack) = "setTimeout"
    /\ pending' = pending + 1
    /\ gameLoopTimeout' = "live"
    /\ log' = Append(log, Call("setTimeout", initialSpeed, 0))
    /\ stack' = Tail(stack)
    /\ UNCHANGED <<snake, apple, direction, nextDirection, score, highScore,
                   speed, stored, lastLegal>>

(* gameLoop(), line 296; the invocation returns *)
Schedule ==
    /\ stack # <<>>
    /\ Head(stack) = "setTimeout"
    /\ pending' = pending + 1
    /\ gameLoopTimeout' = "live"
    /\ log' = Append(log, Call("setTimeout", speed, 0))
    /\ stack' = Tail(stack)
    /\ UNCHANGED <<snake, apple, direction, nextDirection, score, highScore,
                   speed, stored, lastLegal>>

(* faulty variant of KeyDown: the key is written to the committed direction *)
KeyDownDirect(k) ==
    /\ Idle
    /\ direction' = IF KeyAccepted(k, direction) THEN k ELSE direction
    /\ lastLegal' = IF k # Opposite(direction) THEN k ELSE lastLegal
    /\ log' = <<Call(KeyName(k), 0, 0)>>
    /\ UNCHANGED <<snake, apple, nextDirection, score, highScore, speed,
                   gameLoopTimeout, stored, pending, stack>>

(***************************************************************************)
(* The keydown listener of initInput(), for the four arrow keys (any other *)
(* key matches no case).  Delivered only while no handler runs: the alert  *)
(* is modal.                                                               *)
(***************************************************************************)
KeyDown(k) ==
    /\ Idle
    /\ nextDirection' = IF KeyAccepted(k, direction) THEN k ELSE nextDirection
    /\ lastLegal' = IF k # Opposite(direction) THEN k ELSE lastLegal
    /\ log' = <<Call(KeyName(k), 0, 0)>>
    /\ UNCHANGED <<snake, apple, direction, score, highScore, speed,
                   gameLoopTimeout, stored, pending, stack>>

Next ==
    \/ ResetGame
    \/ FireHandle
    \/ FireOther
    \/ Update
    \/ AlertAck
    \/ Draw
    \/ Schedule
    \/ \E k \in Direction : KeyDown(k)

Spec == Init /\ [][Next]_vars

(***************************************************************************)
(* SessionSpec: score, speed and high score over the sessions, with the    *)
(* geometry left open: which tick eats and which tick collides is not      *)
(* decided by snake and apple but free, so a session can eat MaxApples     *)
(* apples on a grid of any size; the snake grows along its row, with no    *)
(* wall.  A tick is one step.                                              *)
(***************************************************************************)
SessionInit ==
    /\ stored \in {<<>>} \cup {toString(n) : n \in 1..MaxStoredHigh}
    /\ snake = <<Point(3, 1)>>
    /\ apple = Point(0, 0)
    /\ direction = "right"
    /\ nextDirection = "right"
    /\ score = 0
    /\ highScore = LoadHighScore(stored)
    /\ speed = initialSpeed
    /\ gameLoopTimeout = "live"
    /\ pending = 1
    /\ stack = <<>>
    /\ log = <<>>
    /\ lastLegal = "none"

(* update(), lines 182-189: a tick whose head is on the apple *)
SessionEat ==
    /\ score < MaxApples
    /\ snake' = GrowBody(snake, MoveHead(snake[1], direction))
    /\ score' = score + 1
    /\ speed' = increaseDifficulty(speed)
    /\ log' = <<Call("update", 0, 0), Call("updateScoreDisplay", score', 0),
                Call("placeApple", 0, 0),
                Call("increaseDifficulty", speed, speed')>>
    /\ UNCHANGED <<apple, direction, nextDirection, highScore,
                   gameLoopTimeout, stored, pending, stack, lastLegal>>

(* handleGameOver(), lines 226-233, and resetGame(), lines 93-97: a tick *)
(* that collides                                                         *)
SessionGameOver ==
    /\ IF NewHighScore(score, highScore)
       THEN /\ highScore' = score
            /\ stored' = toString(highScore')
       ELSE UNCHANGED <<highScore, stored>>
    /\ snake' = <<Point(3, 1)>>
    /\ score' = 0
    /\ speed' = initialSpeed
    /\ log' = <<Call("update", 0, 0), Call("handleGameOver", 0, 0),
                Call("alert", score, highScore'), Call("resetGame", 0, 0)>>
    /\ UNCHANGED <<apple, direction, nextDirection,
                   gameLoopTimeout, pending, stack, lastLegal>>

SessionNext == SessionEat \/ SessionGameOver

SessionSpec == SessionInit /\ [][SessionNext]_vars

(***************************************************************************)
(* DifficultySpec: increaseDifficulty() applied once to every speed from   *)
(* minSpeed to initialSpeed.                                               *)
(***************************************************************************)
DifficultyInit ==
    /\ speed \in minSpeed..initialSpeed
    /\ stored = <<>>
    /\ snake = <<Point(3, 1)>>
    /\ apple = Point(0, 0)
    /\ direction = "right"
    /\ nextDirection = "right"
    /\ score = 0
    /\ highScore = 0
    /\ gameLoopTimeout = "live"
    /\ pending = 1
    /\ stack = <<>>
    /\ log = <<>>
    /\ lastLegal = "none"

DifficultyStep ==
    /\ log = <<>>
    /\ speed' = increaseDifficulty(speed)
    /\ log' = <<Call("increaseDifficulty", speed, speed')>>
    /\ UNCHANGED <<snake, apple, direction, nextDirection, score, highScore,
                   gameLoopTimeout, stored, pending, stack, lastLegal>>

DifficultySpec == DifficultyInit /\ [][DifficultyStep]_vars

(***************************************************************************)
(* Vocabulary of the properties.                                           *)
(***************************************************************************)
UnitVector(d) ==
    CASE d = "up"    -> <<0, -1>>
      [] d = "down"  -> <<0, 1>>
      [] d = "left"  -> <<-1, 0>>
      [] d = "right" -> <<1, 0>>

(* head of snake s plus the unit vector of d *)
Prospective(s, d) == Point(s[1].x + UnitVector(d)[1], s[1].y + UnitVector(d)[2])

GameLoopFrames == {"update", "draw", "setTimeout"}

ActiveTicks == Cardinality({i \in 1..Len(stack) : stack[i] \in GameLoopFrames})

Top == IF stack = <<>> THEN "idle" ELSE Head(stack)

LastCall == IF log = <<>> THEN "none" ELSE log[Len(log)].op

(* the step that runs update() *)
UpdateStep == Top = "update" /\ stack' # stack

(* the calls a step appends to the log *)
NewCalls == SubSeq(log', Len(log) + 1, Len(log'))

Count(calls, name) == Cardinality({i \in 1..Len(calls) : calls[i].op = name})

(***************************************************************************)
(* C1: whenever no tick is executing, at most one scheduled tick is        *)
(* pending; after a game-over tick has finished exactly one is pending.    *)
(* Violated: the gameLoop() called by resetGame() schedules a tick, and    *)
(* the gameLoop() that was running update() schedules another when         *)
(* update() returns.                                                       *)
(***************************************************************************)
AtMostOnePendingTick == Idle => pending <= 1

(***************************************************************************)
(* C2: ticks never overlap: no tick's update or render runs while another  *)
(* tick's update has not returned.  Violated on the game-over path, where  *)
(* resetGame() calls gameLoop() from inside update().                      *)
(***************************************************************************)
TicksNeverOverlap == ActiveTicks <= 1

(***************************************************************************)
(* C3: a request for the opposite of the committed direction leaves the    *)
(* pending direction unchanged, whatever it holds; every other request     *)
(* sets the pending direction to the requested direction.                  *)
(***************************************************************************)
NoReversal ==
    [][Idle /\ Idle' =>
          \A k \in Direction :
              log' = <<Call(KeyName(k), 0, 0)>> =>
                  IF k = Opposite(direction)
                  THEN nextDirection' = nextDirection
                  ELSE nextDirection' = k]_vars

(* a left request was delivered while moving right with an up request buffered *)
NoReversalWitness ==
    /\ Idle
    /\ log = <<Call("ArrowLeft", 0, 0)>>
    /\ direction = "right"
    /\ nextDirection = "up"
    /\ Len(snake) >= 2

(***************************************************************************)
(* C4: the direction a tick commits is the most recent legal request       *)
(* delivered since the previous commit, or the value of the committed      *)
(* direction before the commit if there was none.                          *)
(***************************************************************************)
LastWriteWins ==
    [][UpdateStep =>
          direction' = IF lastLegal = "none" THEN direction ELSE lastLegal]_vars

(* a tick has just committed a requested turn *)
LastWriteWinsWitness ==
    /\ stack = <<"draw">>
    /\ direction = "down"
    /\ Len(snake) >= 2
    /\ snake[2].x = snake[1].x
    /\ snake[2].y = snake[1].y - 1

(***************************************************************************)
(* C5: a tick enters the game-over path if and only if the prospective     *)
(* head is outside the grid or equals an element of the snake as it is     *)
(* before the move; otherwise the prospective head is prepended.           *)
(***************************************************************************)
CollisionClassification ==
    [][UpdateStep =>
          LET ph == Prospective(snake, direction') IN
          /\ (Head(stack') = "alert") <=> (ph \notin Cells \/ ph \in Range(snake))
          /\ Head(stack') # "alert" => snake'[1] = ph]_vars

(* game over of a snake of two segments on the upper wall *)
CollisionClassificationWitness ==
    /\ Top = "alert"
    /\ Len(snake) = 2
    /\ direction = "up"
    /\ Prospective(snake, direction) = Point(snake[1].x, -1)

(***************************************************************************)
(* C6: strict tail rule: a tick whose prospective head is the cell of the  *)
(* last segment (length >= 2) ends in game over.                           *)
(***************************************************************************)
StrictTailRule ==
    [][UpdateStep /\ Len(snake) >= 2
         /\ Prospective(snake, direction') = snake[Len(snake)]
       => Head(stack') = "alert"]_vars

(* game over on the cell of the tail *)
StrictTailRuleWitness ==
    /\ Top = "alert"
    /\ Len(snake) >= 2
    /\ Prospective(snake, direction) = snake[Len(snake)]

(***************************************************************************)
(* C7: on a tick without game over the new head is the old head plus the   *)
(* unit vector of the committed direction, followed by the previous snake  *)
(* (all of it on an eating tick, all but its last element otherwise).      *)
(***************************************************************************)
MovementVector ==
    [][UpdateStep /\ Head(stack') # "alert" =>
          /\ snake'[1] = Prospective(snake, direction')
          /\ Tail(snake') = IF Prospective(snake, direction') = apple
                            THEN snake
                            ELSE Front(snake)]_vars

(* a snake of three segments has just moved up after moving left *)
MovementVectorWitness ==
    /\ stack = <<"draw">>
    /\ direction = "up"
    /\ Len(snake) >= 3
    /\ snake[1] = Point(snake[2].x, snake[2].y - 1)
    /\ snake[2] = Point(snake[3].x - 1, snake[3].y)

(***************************************************************************)
(* C8: a tick whose prospective head is the apple (and does not collide)   *)
(* lengthens the snake by 1, adds 1 to the score, relocates the apple once *)
(* and updates the difficulty once; the score changes in no other way,     *)
(* except that a reset sets it to 0.                                       *)
(***************************************************************************)
Growth ==
    [][/\ ( /\ UpdateStep
            /\ Head(stack') # "alert"
            /\ Prospective(snake, direction') = apple )
          => /\ Len(snake') = Len(snake) + 1
             /\ score' = score + 1
             /\ Count(NewCalls, "placeApple") = 1
             /\ apple' # apple
             /\ Count(NewCalls, "increaseDifficulty") = 1
             /\ speed' = IF speed - speedDecrement > minSpeed
                         THEN speed - speedDecrement ELSE minSpeed
       /\ score' # score
          => \/ /\ UpdateStep
                /\ Prospective(snake, direction') = apple
                /\ score' = score + 1
             \/ /\ Top = "resetGame"
                /\ score' = 0]_vars

(* a second apple has just been eaten *)
GrowthWitness ==
    /\ stack = <<"draw">>
    /\ LastCall = "increaseDifficulty"
    /\ score = 2
    /\ Len(snake) = 3

(***************************************************************************)
(* C9: a tick that neither eats the apple nor ends in game over leaves     *)
(* the length of the snake, the score, the speed, the apple and the high   *)
(* score unchanged.                                                        *)
(***************************************************************************)
LengthConservation ==
    [][/\ UpdateStep
       /\ Head(stack') # "alert"
       /\ Prospective(snake, direction') # apple
       => /\ Len(snake') = Len(snake)
          /\ UNCHANGED <<score, speed, apple, highScore>>]_vars

(* a snake of two segments has just moved without eating *)
LengthConservationWitness ==
    /\ stack = <<"draw">>
    /\ LastCall = "update"
    /\ Len(snake) = 2
    /\ score = 1

(***************************************************************************)
(* C10: between ticks the apple is inside the grid and on no segment of    *)
(* the snake; when placeApple() has just returned the apple is on no       *)
(* segment of the snake as it is then.                                     *)
(***************************************************************************)
PlaceAppleReturned ==
    \E i \in 1..Len(log) :
        /\ log[i].op = "placeApple"
        /\ \A j \in (i + 1)..Len(log) :
              log[j].op \in {"clearTimeout", "gameLoop", "increaseDifficulty"}

AppleInvariant ==
    (Idle \/ PlaceAppleReturned) =>
        /\ apple \in Cells
        /\ \A i \in 1..Len(snake) : snake[i] # apple

(* the apple has just been placed next to a snake of three segments *)
AppleInvariantWitness ==
    /\ PlaceAppleReturned
    /\ Top = "draw"
    /\ Len(snake) = 3
    /\ apple = Point(snake[1].x, 1 - snake[1].y)

Max(a, b) == IF a >= b THEN a ELSE b

(* the step has run resetGame() *)
ResetStep ==
    /\ log' # log
    /\ \/ Top = "resetGame"
       \/ \E i \in 1..Len(log') : log'[i].op = "resetGame" /\ Idle'

(***************************************************************************)
(* C11: with initialSpeed 200, minSpeed 50 and speedDecrement 5 the speed  *)
(* stays within minSpeed..initialSpeed; it never increases from one tick   *)
(* to the next, except that a game-over reset sets it to initialSpeed.     *)
(***************************************************************************)
SpeedBounds ==
    /\ [](minSpeed <= speed /\ speed <= initialSpeed)
    /\ [][\/ speed' <= speed
          \/ ResetStep /\ speed' = initialSpeed]_vars

(* the thirty-first apple of a session: the speed stays at the floor *)
SpeedBoundsWitness ==
    /\ score = 31
    /\ speed = minSpeed
    /\ LastCall = "increaseDifficulty"
    /\ log[Len(log)].a = minSpeed

GameOverStep == UpdateStep /\ Head(stack') = "alert"

(***************************************************************************)
(* C13: the high score never decreases; a game over sets it to the larger  *)
(* of high score and ended score; the store is written exactly when the    *)
(* ended score is strictly greater than the high score, with that score;   *)
(* no other step (a reset in particular) changes high score or store.      *)
(***************************************************************************)
HighScoreRatchet ==
    [][/\ highScore' >= highScore
       /\ GameOverStep =>
             /\ highScore' = Max(highScore, score)
             /\ Count(NewCalls, "setItem") = (IF score > highScore THEN 1 ELSE 0)
             /\ \A i \in 1..Len(NewCalls) :
                   NewCalls[i].op = "setItem" => NewCalls[i].a = score
             /\ IF score > highScore
                THEN parseInt(stored') = score
                ELSE stored' = stored
       /\ ~GameOverStep => UNCHANGED <<highScore, stored>>]_vars

(* game over with a score below the high score an earlier session stored *)
HighScoreRatchetWitness ==
    /\ Top = "alert"
    /\ score = 1
    /\ highScore = 2
    /\ stored = <<2>>
    /\ Count(log, "setItem") = 0

(***************************************************************************)
(* C14: once the game-over handling has returned, score = 0, speed =       *)
(* initialSpeed, the snake has one segment, and the high score is the one  *)
(* the notification showed; for every position of the new apple.           *)
(* Violated when the new apple is placed on (4,1): the gameLoop() that     *)
(* resetGame() calls eats it before handleGameOver() returns.              *)
(***************************************************************************)
GameOverReturned ==
    /\ stack = <<"draw">>
    /\ Count(log, "alert") = 1

ResetPostcondition ==
    GameOverReturned =>
        /\ score = 0
        /\ speed = initialSpeed
        /\ Len(snake) = 1
        /\ \A i \in 1..Len(log) :
              log[i].op = "alert" => highScore = Max(log[i].b, log[i].a)

(***************************************************************************)
(* The order of handleGameOver(), shared by the two statements of C15:     *)
(* the high score is updated and stored, then the alert shows the ended    *)
(* score and the updated high score; snake, apple, score, speed and the    *)
(* pending direction are untouched until the alert has returned; only      *)
(* then does resetGame() run.                                              *)
(***************************************************************************)
NotificationOrder ==
    /\ GameOverStep =>
          /\ UNCHANGED <<snake, apple, score, speed, nextDirection>>
          /\ highScore' = Max(highScore, score)
          /\ NewCalls[Len(NewCalls)] = Call("alert", score, highScore')
          /\ highScore' >= score
          /\ Count(NewCalls, "resetGame") = 0
    /\ Top = "alert" =>
          UNCHANGED <<snake, apple, score, speed, direction, nextDirection,
                      highScore, stored>>
    /\ \A i \in 1..Len(log') :
          log'[i].op = "resetGame" =>
              \/ log'[1].op = "updateHighScoreDisplay"
              \/ \E j \in 1..(i - 1) : log'[j].op = "alert"

(***************************************************************************)
(* C15 as stated: the colliding tick modifies neither snake, apple, score, *)
(* speed nor the directions before the notification is acknowledged.       *)
(* Violated: update() commits the pending direction before it classifies   *)
(* the move.                                                               *)
(***************************************************************************)
GameOverOrderingAsStated ==
    [][/\ NotificationOrder
       /\ GameOverStep => direction' = direction]_vars

(***************************************************************************)
(* C15, amended: as above, except that the committed direction has been    *)
(* set to the pending direction by the commit of the colliding tick.       *)
(***************************************************************************)
GameOverOrdering ==
    [][/\ NotificationOrder
       /\ GameOverStep => direction' = nextDirection]_vars

(* a new high score is stored, then shown; the tick had just turned up *)
GameOverOrderingWitness ==
    /\ Top = "alert"
    /\ LastCall = "alert"
    /\ Count(log, "setItem") = 1
    /\ log[Len(log)].a = score
    /\ direction = "up"
    /\ Len(snake) >= 2
    /\ snake[1].y = 0
    /\ snake[2].y = 0

Adjacent(p, q) ==
    \/ p.x = q.x /\ (p.y = q.y + 1 \/ q.y = p.y + 1)
    \/ p.y = q.y /\ (p.x = q.x + 1 \/ q.x = p.x + 1)

(***************************************************************************)
(* C16: between ticks, after startup, the snake is non-empty and no two of *)
(* its segments are on the same cell.                                      *)
(***************************************************************************)
SnakeInvariant ==
    Idle =>
        /\ Len(snake) >= 1
        /\ \A i, j \in 1..Len(snake) : i # j => snake[i] # snake[j]

(* a snake curled up so that its head is next to its fourth segment *)
SnakeInvariantWitness ==
    /\ Idle
    /\ Len(snake) = 5
    /\ Adjacent(snake[1], snake[4])
    /\ \E i \in 1..Len(log) : log[i].op = "update"

(***************************************************************************)
(* C17: the handling of an arrow key changes at most nextDirection; snake, *)
(* apple, score, speed, highScore, direction, the timer handle and the     *)
(* pending timers are unchanged, and neither update() nor draw() is called.*)
(***************************************************************************)
InputFrame ==
    [][\A k \in Direction :
          (Idle /\ log' = <<Call(KeyName(k), 0, 0)>>) =>
              /\ UNCHANGED <<snake, apple, score, speed, highScore, direction,
                             gameLoopTimeout, pending, stored>>
              /\ Idle'
              /\ Count(log', "update") = 0
              /\ Count(log', "draw") = 0]_vars

(* an accepted turn, taken while two timers are pending *)
InputFrameWitness ==
    /\ Idle
    /\ log = <<Call("ArrowUp", 0, 0)>>
    /\ nextDirection = "up"
    /\ direction = "left"
    /\ Len(snake) >= 2
    /\ pending = 2

(***************************************************************************)
(* LiveSpec: Spec with the scheduling of the browser.  A pending timer     *)
(* eventually fires, a running handler runs on to its next statement, and  *)
(* an alert on display is eventually dismissed.  Key presses are up to the *)
(* player and carry no fairness.                                           *)
(***************************************************************************)
Tick ==
    \/ FireHandle
    \/ FireOther
    \/ ResetGame
    \/ Update
    \/ AlertAck
    \/ Draw
    \/ Schedule

LiveSpec == Spec /\ WF_vars(Tick)

(* the tick about to run would eat the apple that MaxScore leaves uneaten *)
AtMaxScore ==
    /\ Top = "update"
    /\ score = MaxScore
    /\ OnApple(MoveHead(snake[1], nextDirection), apple)

(***************************************************************************)
(* C18: the loop re-arms itself forever.  Whenever no handler runs a timer *)
(* is pending; it eventually fires and its tick runs update(); and every   *)
(* tick, a game-over tick from its alert on included, runs to its end,     *)
(* where again a timer is pending.                                         *)
(***************************************************************************)
LoopLiveness ==
    /\ [](Idle => pending >= 1)
    /\ Idle ~> (Top = "update")
    /\ (~Idle /\ ~AtMaxScore) ~> Idle

(* a game-over tick has run to its end and has re-armed the loop *)
LoopLivenessWitness ==
    /\ Idle
    /\ Count(log, "alert") = 1
    /\ Count(log, "resetGame") = 1
    /\ LastCall = "setTimeout"
    /\ pending >= 1

(***************************************************************************)
(* C19: every setTimeout of the loop carries the speed at the moment of    *)
(* the call: the speed increaseDifficulty() has just set when the tick ate *)
(* (the last one before the call), initialSpeed when resetGame() ran       *)
(* before it in the same handler and nothing was eaten since.              *)
(***************************************************************************)
SchedulingDelay ==
    /\ LastCall = "setTimeout" => log[Len(log)].a = speed
    /\ \A i \in 1..Len(log) :
          log[i].op = "setTimeout" =>
              /\ minSpeed <= log[i].a
              /\ log[i].a <= initialSpeed
              /\ \A j \in 1..(i - 1) :
                    (/\ log[j].op = "increaseDifficulty"
                     /\ \A m \in (j + 1)..(i - 1) :
                           log[m].op \notin {"increaseDifficulty", "resetGame"})
                    => log[i].a = log[j].b
              /\ \A j \in 1..(i - 1) :
                    (/\ log[j].op = "resetGame"
                     /\ \A m \in (j + 1)..(i - 1) :
                           log[m].op \notin {"increaseDifficulty", "resetGame"})
                    => log[i].a = initialSpeed

(* a game-over tick whose nested tick ate: both timers carry the new speed *)
SchedulingDelayWitness ==
    /\ Idle
    /\ Count(log, "alert") = 1
    /\ Count(log, "increaseDifficulty") = 1
    /\ Count(log, "setTimeout") = 2
    /\ log[Len(log)].a = initialSpeed - speedDecrement

(***************************************************************************)
(* PlaceSpec: the loop of placeApple(), one draw per step, called by       *)
(* update() for a snake that has just eaten (the old apple is under its    *)
(* head).  The snakes are the stretches of the boustrophedon path through  *)
(* the grid, in either direction, up to the one that fills the grid.       *)
(***************************************************************************)
PathCell(n) ==
    LET row == n \div GridWidth
        col == n % GridWidth
    IN  Point(IF row % 2 = 0 THEN col ELSE GridWidth - 1 - col, row)

PathSnakes ==
    LET last == GridWidth * GridHeight - 1 IN
    UNION {{[i \in 1..(to - from + 1) |-> PathCell(from + i - 1)],
            [i \in 1..(to - from + 1) |-> PathCell(to - i + 1)]} :
           from \in 0..last, to \in 0..last} \ {<<>>}

PlaceInit ==
    /\ snake \in PathSnakes
    /\ apple = snake[1]
    /\ stack = <<"placeApple">>
    /\ log = <<Call("placeApple", 0, 0)>>
    /\ direction = "right"
    /\ nextDirection = "right"
    /\ score = Len(snake) - 1
    /\ highScore = 0
    /\ speed = initialSpeed
    /\ gameLoopTimeout = "stale"
    /\ stored = <<>>
    /\ pending = 0
    /\ lastLegal = "none"

(* faulty variant of PlaceDraw: a single draw, the loop is left either way *)
PlaceDrawOnce(c) ==
    /\ stack = <<"placeApple">>
    /\ log' = <<Call("random", c.x, c.y)>>
    /\ apple' = IF c \in placeApple(snake) THEN c ELSE apple
    /\ stack' = <<>>
    /\ UNCHANGED <<snake, direction, nextDirection, score, highScore, speed,
                   gameLoopTimeout, stored, pending, lastLegal>>

(* placeApple(), lines 139-149: one iteration, drawing the cell c *)
PlaceDraw(c) ==
    /\ stack = <<"placeApple">>
    /\ log' = <<Call("random", c.x, c.y)>>
    /\ LET onSnake == \E i \in 1..Len(snake) :
                          snake[i].x = c.x /\ snake[i].y = c.y
       IN  IF ~onSnake
           THEN /\ apple' = c
                /\ stack' = <<>>
           ELSE UNCHANGED <<apple, stack>>
    /\ UNCHANGED <<snake, direction, nextDirection, score, highScore, speed,
                   gameLoopTimeout, stored, pending, lastLegal>>

PlaceNext == \E c \in Cells : PlaceDraw(c)

(* fair draws: no cell is left out for ever *)
PlaceSpec ==
    PlaceInit /\ [][PlaceNext]_vars /\ \A c \in Cells : WF_vars(PlaceDraw(c))

PlaceLooping == stack = <<"placeApple">>

GridFull == placeApple(snake) = {}

(***************************************************************************)
(* C20: under fair draws placeApple() returns whenever a cell is free of   *)
(* the snake, with the apple on a free cell; when the snake fills the grid *)
(* it never returns.                                                       *)
(***************************************************************************)
PlaceAppleTermination ==
    /\ (PlaceLooping /\ ~GridFull) ~> ~PlaceLooping
    /\ [](~PlaceLooping => apple \in placeApple(snake))
    /\ [](GridFull => PlaceLooping)

(* returned with the apple on the last free cell *)
PlaceAppleTerminationWitness ==
    /\ ~PlaceLooping
    /\ Len(snake) = GridWidth * GridHeight - 1
    /\ placeApple(snake) = {apple}
    /\ log = <<Call("random", apple.x, apple.y)>>

(***************************************************************************)
(* C21: between ticks the score is the number of segments less one, and    *)
(* with initialSpeed 200, minSpeed 50 and speedDecrement 5 the speed is    *)
(* max(minSpeed, initialSpeed - speedDecrement * score).                   *)
(***************************************************************************)
ScoreCoupling ==
    Idle =>
        /\ score = Len(snake) - 1
        /\ speed = Max(minSpeed, initialSpeed - speedDecrement * score)

(* one apple past the score at which the speed reaches its floor *)
ScoreCouplingWitness ==
    /\ Idle
    /\ LastCall = "increaseDifficulty"
    /\ score = 31
    /\ Len(snake) = 32
    /\ speed = minSpeed
    /\ initialSpeed - speedDecrement * score < minSpeed

(* the direction that leads from the cell q to its neighbour p *)
UnitToDirection(p, q) ==
    CHOOSE d \in Direction : <<p.x - q.x, p.y - q.y>> = UnitVector(d)

(***************************************************************************)
(* C22: between ticks the pending direction is never the opposite of the   *)
(* committed direction and, for a snake of two or more segments, the head  *)
(* less the second segment is the unit vector of the committed direction;  *)
(* so the prospective head is never the second segment, and a tick ends in *)
(* a self-collision game over only for a snake of four or more segments.   *)
(***************************************************************************)
NeckInvariant ==
    /\ [](Idle =>
            /\ nextDirection # Opposite(direction)
            /\ Len(snake) >= 2 =>
                  /\ snake[1].x - snake[2].x = UnitVector(direction)[1]
                  /\ snake[1].y - snake[2].y = UnitVector(direction)[2]
                  /\ Prospective(snake, nextDirection) # snake[2])
    /\ [][(GameOverStep /\ Prospective(snake, direction') \in Cells)
              => Len(snake) >= 4]_vars

(* a snake of four segments has just run into its tail after a turn *)
NeckInvariantWitness ==
    /\ Top = "alert"
    /\ Len(snake) = 4
    /\ Prospective(snake, direction) = snake[4]
    /\ direction # Opposite(UnitToDirection(snake[1], snake[2]))
    /\ UnitToDirection(snake[1], snake[2]) # direction

(***************************************************************************)
(* C23: between ticks every segment of the snake is inside the grid and    *)
(* every two consecutive segments differ by exactly 1 in exactly one       *)
(* coordinate (the start cell (3,1) and its right neighbour (4,1) being    *)
(* inside the grid).                                                       *)
(***************************************************************************)
BodyShape ==
    (Point(3, 1) \in Cells /\ Point(4, 1) \in Cells) =>
        (Idle =>
            /\ \A i \in 1..Len(snake) :
                  /\ 0 <= snake[i].x /\ snake[i].x < GridWidth
                  /\ 0 <= snake[i].y /\ snake[i].y < GridHeight
            /\ \A i \in 1..(Len(snake) - 1) : Adjacent(snake[i], snake[i + 1]))

(* a bent snake of five segments with its head in the top left corner *)
BodyShapeWitness ==
    /\ Idle
    /\ Len(snake) = 5
    /\ snake[1] = Point(0, 0)
    /\ \E i \in 1..5 : snake[i].y = 1
    /\ LastCall = "setTimeout"
=============================================================================
